---- MODULE Spec2Model ----
(***************************************************************************)
(* Model of autostereogram_generator.py: the depth-map builder, the shift  *)
(* validator, the two pattern providers, the row synthesizer and main().   *)
(* Lists are sequences; Python's 0-based index i is position i + 1.        *)
(***************************************************************************)
EXTENDS Integers, Sequences, FiniteSets, TLC

VARIABLES pc, args, depthmap, pattern, li, result, trace, stdout, err, input, output

vars == <<pc, args, depthmap, pattern, li, result, trace, stdout, err, input, output>>

\* Python's None for an optional argument: None is <<>>, the value v is <<v>>.
None == <<>>
Some(v) == <<v>>
\* Python's None in an output cell that is not set yet.
NoneCell == "None"

-----------------------------------------------------------------------------
\* Bounds of the model.

\* longest depth-map row / input line
MaxCols == 3
\* most depth-map rows / input lines
MaxRows == 2
\* most cells of an enumerated depth map or characters of an enumerated file
MaxCells == 4
\* largest SHIFT tried
MaxShift == 3

\* characters a depth file is written with: elevations 2 and -1, the
\* background and one illegal character
DepthChars == {"b", "A", " ", "#"}
\* elevations of a depth map handed directly to the validator or synthesizer
Elevations == {-1, 0, 1, 2}
\* --rescale-depth factors tried, as exact fractions num/den
RescaleFactors == {<<1, 1>>, <<1, 2>>, <<3, 2>>}
\* the factors main is run with
MainRescaleFactors == {<<1, 1>>, <<1, 2>>}

-----------------------------------------------------------------------------
\* Generic sequence helpers (list comprehension, slicing, max).

Range(s) == {s[i] : i \in DOMAIN s}

Min2(a, b) == IF a < b THEN a ELSE b
Max2(a, b) == IF a > b THEN a ELSE b

\* l[:n] for n >= 0
Take(s, n) == SubSeq(s, 1, Min2(n, Len(s)))
\* l[n:] for n >= 0
Drop(s, n) == SubSeq(s, n + 1, Len(s))
\* [v] * n
Repeat(v, n) == [i \in 1..n |-> v]

SetMax(S) == CHOOSE m \in S : \A y \in S : y <= m

Abs(v) == IF v < 0 THEN -v ELSE v

\* all sequences over S of length 0..n
SeqsUpTo(S, n) == UNION {[1..k -> S] : k \in 0..n}

-----------------------------------------------------------------------------
\* char_to_depth_value

Digits == <<"0", "1", "2", "3", "4", "5", "6", "7", "8", "9">>
Lower == <<"a", "b", "c", "d", "e", "f", "g", "h", "i", "j", "k", "l", "m",
           "n", "o", "p", "q", "r", "s", "t", "u", "v", "w", "x", "y", "z">>
Upper == <<"A", "B", "C", "D", "E", "F", "G", "H", "I", "J", "K", "L", "M",
           "N", "O", "P", "Q", "R", "S", "T", "U", "V", "W", "X", "Y", "Z">>

IndexOf(s, c) == CHOOSE i \in DOMAIN s : s[i] = c

\* ord(c) for the characters the model uses
ord(c) ==
    IF c \in Range(Digits) THEN 47 + IndexOf(Digits, c)
    ELSE IF c \in Range(Upper) THEN 64 + IndexOf(Upper, c)
    ELSE IF c \in Range(Lower) THEN 96 + IndexOf(Lower, c)
    ELSE IF c = " " THEN 32
    ELSE 35

\* the elevation of c as <<v>>, or None where the code prints the error and exits
char_to_depth_value(c) ==
    IF c = " " THEN Some(0)
    ELSE IF ord(c) >= 48 /\ ord(c) <= 57 THEN Some(ord(c) - 48)
    ELSE IF ord(c) >= 97 /\ ord(c) <= 122 THEN Some(ord(c) - 96)
    ELSE IF ord(c) >= 65 /\ ord(c) <= 90 THEN Some(64 - ord(c))
    ELSE None

-----------------------------------------------------------------------------
\* parse_depth_map_file

\* f"{l:<{n}}": pad with spaces on the right to at least n characters
ljust(l, n) == l \o Repeat(" ", n - Len(l))

\* f"{l:^{n}}": centre, the odd space going to the right
center(l, n) ==
    LET pad == Max2(n - Len(l), 0)
        left == pad \div 2
    IN  Repeat(" ", left) \o l \o Repeat(" ", pad - left)

\* round(x * f) for f = num/den, den > 0: ties go to the even integer
round_rescale(x, f) ==
    LET n == x * f[1]
        d == f[2]
        q == n \div d
        r == n % d
    IN  IF 2 * r < d THEN q
        ELSE IF 2 * r > d THEN q + 1
        ELSE IF q % 2 = 0 THEN q ELSE q + 1

\* lines 38-46: cut to the first height lines or centre vertically
adjust_height(lines, height) ==
    IF height = None THEN lines
    ELSE IF height[1] <= Len(lines) THEN Take(lines, height[1])
    ELSE LET total_lines_to_add == height[1] - Len(lines)
             lines_above == total_lines_to_add \div 2
             lines_below == total_lines_to_add - lines_above
         IN  Repeat(<<>>, lines_above) \o lines \o Repeat(<<>>, lines_below)

\* The outcome of parse_depth_map_file on the file's lines:
\* [status |-> "ok", map |-> rows], an exit of the code or a crash.
parse_depth_map_file(lines, width0, height, factor) ==
    IF Len(lines) = 0 THEN [status |-> "EmptyDepthMap", map |-> <<>>]
    ELSE
    LET max_line_length == SetMax({Len(lines[i]) : i \in DOMAIN lines})
        width == IF width0 = None THEN max_line_length ELSE width0[1]
        kept == adjust_height(lines, height)
        filled == [i \in DOMAIN kept |-> ljust(kept[i], max_line_length)]
        fitted == [i \in DOMAIN filled |-> center(Take(filled[i], width), width)]
        values == [i \in DOMAIN fitted |->
                     [j \in DOMAIN fitted[i] |-> char_to_depth_value(fitted[i][j])]]
        scaled == [i \in DOMAIN values |->
                     [j \in DOMAIN values[i] |-> round_rescale(values[i][j][1], factor)]]
    IN  IF width < 0 THEN [status |-> "ValueError", map |-> <<>>]
        ELSE IF \E i \in DOMAIN values : None \in Range(values[i])
             THEN [status |-> "InvalidDepthCharacter", map |-> <<>>]
        ELSE [status |-> "ok", map |-> scaled]

-----------------------------------------------------------------------------
\* validate_shift_arg

\* [abs(val) for line in depthmap for val in line], as a set
abs_vals(dm) == UNION {{Abs(dm[i][j]) : j \in DOMAIN dm[i]} : i \in DOMAIN dm}

\* a faulty variant (C2 fails with it): the magnitude test accepts a shift equal to the maximum
shift_too_small_strict(shift, max_abs_val) == shift < max_abs_val

\* line 94: the depth-magnitude test
shift_too_small_for_depth(shift, max_abs_val) == shift <= max_abs_val

\* line 102: the minimum test
shift_below_minimum(shift) == shift < 2

\* "ok" when the function returns, else the exit it takes; max() of no cell
\* raises ValueError
validate_shift_arg(shift, dm) ==
    IF abs_vals(dm) = {} THEN "ValueError"
    ELSE IF shift_too_small_for_depth(shift, SetMax(abs_vals(dm)))
         THEN "ShiftTooSmallForDepth"
    ELSE IF shift_below_minimum(shift) THEN "ShiftBelowMinimum"
    ELSE "ok"

-----------------------------------------------------------------------------
\* pattern_from_file

\* line 66: the test that rejects a kept line
pattern_line_too_short(line, shift) == Len(line) < shift

\* [status |-> "ok", pattern |-> rows], or the exit naming the first short line
pattern_from_file(lines, height, shift) ==
    LET kept == Take(lines, height)
        short == {i \in DOMAIN kept : pattern_line_too_short(kept[i], shift)}
    IN  IF short # {}
        THEN [status |-> "PatternTooShort", pattern |-> <<>>,
              line_number |-> (CHOOSE i \in short : \A k \in short : i <= k) - 1]
        ELSE [status |-> "ok", pattern |-> kept, line_number |-> -1]

-----------------------------------------------------------------------------
\* random_pattern

\* (the pool's last character, the backtick, cannot be written in a string of
\* this language and is spelled out)
char_pool == <<
    "a", "A", "b", "B", "c", "d", "D", "e", "E", "f", "F", "g",
    "G", "h", "H", "i", "J", "K", "L", "m", "M", "n", "N", "O",
    "P", "q", "Q", "r", "R", "s", "t", "T", "u", "V", "w", "X",
    "y", "Z", "1", "2", "3", "4", "6", "7", "8", "9", "@", "#",
    "%", "$", "&", "/", "\\", "?", "^", " ", ",", ";", ".", ":",
    "-", "_", "+", "*", "~", "\"", "!", "=", "|", "{", "}", "[",
    "]", "(", ")", ">", "<", "'", "backtick">>

\* the pool rotated left by k: one outcome of random.shuffle(char_pool)
Rotated(k) ==
    [i \in 1..Len(char_pool) |-> char_pool[((i - 1 + k) % Len(char_pool)) + 1]]

\* the outcomes of random.shuffle the model draws from
Shuffles == {Rotated(0), Rotated(1)}

\* the shuffles one line takes: the loop of line 84 runs until the line is long enough
ShufflesNeeded(patternwidth) ==
    (patternwidth + Len(char_pool) - 1) \div Len(char_pool)

\* lines 83-87 for one line; shuffled[k] is the pool after the k-th shuffle
RECURSIVE random_line(_, _, _, _)
random_line(line, patternwidth, shuffled, k) ==
    IF Len(line) < patternwidth
    THEN random_line(line \o shuffled[k], patternwidth, shuffled, k + 1)
    ELSE Take(line, patternwidth)

\* random_pattern for the shuffle outcomes draws[i] of line i
random_pattern(height, patternwidth, draws) ==
    IF ~(patternwidth >= 2) THEN [status |-> "AssertionError", pattern |-> <<>>]
    ELSE [status |-> "ok",
          pattern |-> [i \in 1..height |-> random_line(<<>>, patternwidth, draws[i], 1)]]

-----------------------------------------------------------------------------
\* validate_surplus and generate_autostereogram

\* a faulty variant (C7 fails with it): validate_surplus never stops the run
validate_surplus_never(surplus) == FALSE

\* line 113: TRUE when validate_surplus prints the error and exits
validate_surplus(surplus) == Len(surplus) = 0

\* a faulty variant (C3 fails with it): the next repetition is one cell short
x_next_repetition_short(x, shift, elevation) == x + shift - elevation - 1

\* line 137
x_next_repetition(x, shift, elevation) == x + shift - elevation

\* the position a Python list of length n gives index i (negative indices
\* count from the end), or 0 when the access raises IndexError
PyIndex(n, i) ==
    IF i >= 0 /\ i < n THEN i + 1
    ELSE IF i < 0 /\ i >= -n THEN i + n + 1
    ELSE 0

\* a faulty variant (C8 fails with it): the row buffer is seeded with the whole pattern line
initial_result_line_whole(pattern_line, shift, dml) ==
    pattern_line \o Repeat(NoneCell, Len(dml))

\* lines 130-131: the row buffer and the surplus queue of one line
initial_result_line(pattern_line, shift, dml) ==
    Take(pattern_line, shift) \o Repeat(NoneCell, Len(dml))

initial_surplus(pattern_line, shift) == Drop(pattern_line, shift)

\* The state of one line's synthesis: status is "run" while it goes on, then
\* "ok", "PatternSurplusExhausted" (exit) or "IndexError" (crash). fills lists
\* <<x, character>> for every cell taken from the surplus, writes lists
\* <<x, target>> for every assignment of line 138, attempted ones included,
\* hole is the cell found unset with no surplus left, at is the cell visited last.
StartLine(pattern_line, shift, dml) ==
    [status |-> "run",
     line |-> initial_result_line(pattern_line, shift, dml),
     surplus |-> initial_surplus(pattern_line, shift),
     fills |-> <<>>, writes |-> <<>>, hole |-> -1, at |-> -1]

\* lines 133-136 and 140-143: fill cell x from the surplus when it is unset
fill_if_none(st, x) ==
    IF PyIndex(Len(st.line), x) = 0 THEN [st EXCEPT !.status = "IndexError", !.at = x]
    ELSE IF st.line[x + 1] # NoneCell THEN [st EXCEPT !.at = x]
    ELSE IF validate_surplus(st.surplus)
         THEN [st EXCEPT !.status = "PatternSurplusExhausted", !.hole = x, !.at = x]
    ELSE IF Len(st.surplus) = 0 THEN [st EXCEPT !.status = "IndexError", !.at = x]
    ELSE [st EXCEPT !.line[x + 1] = Head(st.surplus),
                    !.surplus = Tail(st.surplus),
                    !.fills = Append(@, <<x, Head(st.surplus)>>),
                    !.at = x]

\* lines 137-138: copy cell x to its next repetition
copy_to_next(st, x, shift, elevation) ==
    LET target == x_next_repetition(x, shift, elevation)
        pos == PyIndex(Len(st.line), target)
        logged == [st EXCEPT !.writes = Append(@, <<x, target>>)]
    IN  IF pos = 0 THEN [logged EXCEPT !.status = "IndexError"]
        ELSE [logged EXCEPT !.line[pos] = st.line[x + 1]]

\* lines 132-138, from column x on
RECURSIVE main_pass(_, _, _, _)
main_pass(st, x, dml, shift) ==
    IF st.status # "run" \/ x >= Len(dml) THEN st
    ELSE LET filled == fill_if_none(st, x)
         IN  IF filled.status # "run" THEN filled
             ELSE main_pass(copy_to_next(filled, x, shift, dml[x + 1]), x + 1, dml, shift)

\* a faulty variant (C1 fails with it): the clean-up of the last cycle is skipped
last_cycle_skipped(st, x, stop) == st

\* lines 139-143, from cell x up to stop - 1
RECURSIVE last_cycle(_, _, _)
last_cycle(st, x, stop) ==
    IF st.status # "run" \/ x >= stop THEN st
    ELSE last_cycle(fill_if_none(st, x), x + 1, stop)

\* lines 130-144 for one line of the depth map
synth_line(dml, shift, pattern_line) ==
    LET after_main == main_pass(StartLine(pattern_line, shift, dml), 0, dml, shift)
        after_last == last_cycle(after_main, Len(dml), Len(dml) + shift)
    IN  IF after_last.status # "run" THEN after_last
        ELSE IF NoneCell \in Range(after_last.line)
             THEN [after_last EXCEPT !.status = "AssertionError"]
        ELSE [after_last EXCEPT !.status = "ok"]

\* lines 123-126: the assertions on entry, in order; pattern[0] of an empty
\* pattern raises IndexError
generate_entry(dm, shift, pat) ==
    IF Len(pat) # Len(dm) THEN "AssertionError"
    ELSE IF ~(Len(dm) >= 1) THEN "AssertionError"
    ELSE IF ~(shift >= 2) THEN "AssertionError"
    ELSE IF ~(Len(pat[1]) > shift) THEN "AssertionError"
    ELSE "ok"

-----------------------------------------------------------------------------
\* The inputs the model draws from.

OptionalInts(lo, hi) == {None} \cup {Some(v) : v \in lo..hi}

RECURSIVE Sum(_)
Sum(ns) == IF ns = <<>> THEN 0 ELSE Head(ns) + Sum(Tail(ns))

\* the text of the lines before line i, counted in characters
Before(shape, i) == Sum(SubSeq(shape, 1, i - 1))

\* files by line lengths: at most MaxRows lines of at most MaxCols
\* characters, MaxCells characters in all (a file of no line is the empty file)
FileShapes == {sh \in SeqsUpTo(0..MaxCols, MaxRows) : Sum(sh) <= MaxCells}

\* the depth files written with chars, as file.read().splitlines() gives them
DepthFiles(chars) ==
    UNION {{[i \in DOMAIN sh |-> [j \in 1..sh[i] |-> text[Before(sh, i) + j]]] :
              text \in [1..Sum(sh) -> chars]} : sh \in FileShapes}

\* the lines main's depth files are written with
MainLines == {<<>>, <<"b">>, <<"b", "b">>, <<"A">>, <<"#">>}

\* the depth files main reads: the empty file and up to MaxRows lines
MainDepthFiles == SeqsUpTo(MainLines, MaxRows)

\* rectangular depth maps of at least one cell handed directly to a function
DepthMaps ==
    UNION {[1..h -> [1..w -> Elevations]] :
             <<h, w>> \in {hw \in (1..MaxRows) \X (1..MaxCols) : hw[1] * hw[2] <= MaxCells}}

\* the characters pattern files are written with
PatAlphabet == <<"a", "b", "c", "d", "e", "f", "g">>

\* line r (from 1) of a pattern file, n characters long: the alphabet repeated,
\* starting one character later on every line
PatLine(r, n) == [i \in 1..n |-> PatAlphabet[((i + r - 2) % Len(PatAlphabet)) + 1]]

\* pattern line lengths around the two thresholds of the code: below SHIFT,
\* SHIFT itself (no surplus), and every surplus from 1 to the row width
PatLengths(shift, w) == (shift - 1)..(shift + w)

\* the lengths main's pattern files are written with
FilePatLengths(shift, w) == {shift - 1, shift, shift + 1, shift + w}

\* pattern grids of k lines with lengths among lengths
PatGrids(k, lengths) ==
    {[r \in 1..k |-> PatLine(r, lens[r])] : lens \in [1..k -> lengths]}

NoTrace ==
    [status |-> "none", line |-> <<>>, surplus |-> <<>>,
     fills |-> <<>>, writes |-> <<>>, hole |-> -1, at |-> -1]

NoErr == [kind |-> "none", line |-> -1]

NoArgs == [shift |-> 0, width |-> None, height |-> None,
           rescale_depth |-> <<1, 1>>, pattern |-> None]

NoInput == [f |-> "none"]

-----------------------------------------------------------------------------
\* generate_autostereogram as a state machine: entry, then one line per step.

\* a faulty variant (C5 fails with it): every finished line is printed at once
printed_by_line_eager(out, line) == Append(out, line)

\* line 145 adds the finished line to the local result; nothing is printed
printed_by_line(out, line) == out

GenerateEntry ==
    /\ pc = "generate"
    /\ LET r == generate_entry(depthmap, args.shift, pattern)
       IN  IF r = "ok"
           THEN /\ pc' = "lines"
                /\ err' = err
           ELSE /\ pc' = "crash"
                /\ err' = [kind |-> r, line |-> -1]
    /\ li' = 0
    /\ result' = <<>>
    /\ UNCHANGED <<args, depthmap, pattern, trace, stdout, input, output>>

SynthLine ==
    /\ pc = "lines"
    /\ li < Len(depthmap)
    /\ LET r == synth_line(depthmap[li + 1], args.shift, pattern[li + 1])
       IN  /\ trace' = r
           /\ IF r.status = "ok"
              THEN /\ result' = Append(result, r.line)
                   /\ stdout' = printed_by_line(stdout, r.line)
                   /\ li' = li + 1
                   /\ pc' = IF li + 1 = Len(depthmap) THEN "returned" ELSE "lines"
                   /\ err' = err
              ELSE /\ pc' = IF r.status = "PatternSurplusExhausted" THEN "exit" ELSE "crash"
                   /\ err' = [kind |-> r.status, line |-> li]
                   /\ UNCHANGED <<result, stdout, li>>
    /\ UNCHANGED <<args, depthmap, pattern, input, output>>

\* A direct call generate_autostereogram(depth_map, shift, pattern) with a
\* shift that validate_shift_arg accepts for the depth map.
InitSynth ==
    /\ pc = "generate"
    /\ depthmap \in DepthMaps
    /\ \E shift \in 0..MaxShift :
          /\ validate_shift_arg(shift, depthmap) = "ok"
          /\ args = [NoArgs EXCEPT !.shift = shift]
          /\ \E k \in {Len(depthmap) - 1, Len(depthmap)} :
                pattern \in PatGrids(k, PatLengths(shift, Len(depthmap[1])))
    /\ li = 0
    /\ result = <<>>
    /\ trace = NoTrace
    /\ stdout = <<>>
    /\ err = NoErr
    /\ input = NoInput
    /\ output = NoInput

NextSynth == GenerateEntry \/ SynthLine

SpecSynth == InitSynth /\ [][NextSynth]_vars

-----------------------------------------------------------------------------
\* parse_depth_map_file called on its own: the arguments are kept in input,
\* the outcome in output.

Idle ==
    /\ args = NoArgs
    /\ depthmap = <<>>
    /\ pattern = <<>>
    /\ li = 0
    /\ result = <<>>
    /\ trace = NoTrace
    /\ stdout = <<>>
    /\ err = NoErr

InitParse ==
    /\ pc = "call"
    /\ input \in [f : {"parse_depth_map_file"},
                  lines : DepthFiles(DepthChars),
                  width : OptionalInts(-1, MaxCols + 1),
                  height : OptionalInts(1, MaxRows + 1),
                  depth_rescale_factor : RescaleFactors]
    /\ output = NoInput
    /\ Idle

CallParse ==
    /\ pc = "call"
    /\ input.f = "parse_depth_map_file"
    /\ output' = parse_depth_map_file(input.lines, input.width, input.height,
                                      input.depth_rescale_factor)
    /\ pc' = "returned"
    /\ UNCHANGED <<args, depthmap, pattern, li, result, trace, stdout, err, input>>

NextParse == CallParse

SpecParse == InitParse /\ [][NextParse]_vars

-----------------------------------------------------------------------------
\* validate_shift_arg called on its own.

InitValidate ==
    /\ pc = "call"
    /\ input \in [f : {"validate_shift_arg"},
                  shift : -1..MaxShift,
                  depthmap : DepthMaps \cup {<<<<>>>>}]
    /\ output = NoInput
    /\ Idle

CallValidate ==
    /\ pc = "call"
    /\ input.f = "validate_shift_arg"
    /\ output' = [status |-> validate_shift_arg(input.shift, input.depthmap)]
    /\ pc' = "returned"
    /\ UNCHANGED <<args, depthmap, pattern, li, result, trace, stdout, err, input>>

NextValidate == CallValidate

SpecValidate == InitValidate /\ [][NextValidate]_vars

-----------------------------------------------------------------------------
\* main(): parse the depth file, validate the shift, build the pattern,
\* generate, print.

\* lines 262-264: the depth-map width main asks for
input_width(a) == IF a.width = None THEN None ELSE Some(a.width[1] - a.shift)

\* lines 267-268
height_used(a, dm) == IF a.height = None THEN Len(dm) ELSE a.height[1]

\* a faulty variant (C4 fails with it): main's default width is one short
width_used_short(a, dm) ==
    IF a.width = None THEN Len(dm[1]) + a.shift - 1 ELSE a.width[1]

\* lines 269-271
width_used(a, dm) == IF a.width = None THEN Len(dm[1]) + a.shift ELSE a.width[1]

\* the pattern files the model reads for a depth map of width w: one line
\* fewer than, as many as and one more than the height
PatternFiles(height, shift, w) ==
    UNION {PatGrids(k, FilePatLengths(shift, w)) : k \in {height - 1, height, height + 1}}

Init ==
    /\ pc = "parse"
    /\ args \in [shift : 1..MaxShift,
                 width : OptionalInts(MaxShift - 1, MaxShift + 2),
                 height : OptionalInts(1, MaxRows),
                 rescale_depth : MainRescaleFactors,
                 pattern : {None, Some("pattern.txt")}]
    /\ depthmap = <<>>
    /\ pattern = <<>>
    /\ li = 0
    /\ result = <<>>
    /\ trace = NoTrace
    /\ stdout = <<>>
    /\ err = NoErr
    /\ input = NoInput
    /\ output = NoInput

\* line 265
ParseDepthMap ==
    /\ pc = "parse"
    /\ \E lines \in MainDepthFiles :
          LET r == parse_depth_map_file(lines, input_width(args), args.height,
                                        args.rescale_depth)
          IN  IF r.status = "ok"
              THEN /\ depthmap' = r.map
                   /\ pc' = "validate"
                   /\ err' = err
              ELSE /\ depthmap' = depthmap
                   /\ pc' = IF r.status = "ValueError" THEN "crash" ELSE "exit"
                   /\ err' = [kind |-> r.status, line |-> -1]
    /\ UNCHANGED <<args, pattern, li, result, trace, stdout, input, output>>

\* line 266
ValidateShift ==
    /\ pc = "validate"
    /\ LET r == validate_shift_arg(args.shift, depthmap)
       IN  IF r = "ok"
           THEN /\ pc' = "pattern"
                /\ err' = err
           ELSE /\ pc' = IF r = "ValueError" THEN "crash" ELSE "exit"
                /\ err' = [kind |-> r, line |-> -1]
    /\ UNCHANGED <<args, depthmap, pattern, li, result, trace, stdout, input, output>>

\* lines 272-273
RandomPattern ==
    /\ pc = "pattern"
    /\ args.pattern = None
    /\ LET height == height_used(args, depthmap)
           width == width_used(args, depthmap)
       IN  \E draws \in [1..height -> [1..ShufflesNeeded(width) -> Shuffles]] :
              LET r == random_pattern(height, width, draws)
              IN  IF r.status = "ok"
                  THEN /\ pattern' = r.pattern
                       /\ pc' = "generate"
                       /\ err' = err
                  ELSE /\ pattern' = pattern
                       /\ pc' = "crash"
                       /\ err' = [kind |-> r.status, line |-> -1]
    /\ UNCHANGED <<args, depthmap, li, result, trace, stdout, input, output>>

\* lines 274-275
PatternFromFile ==
    /\ pc = "pattern"
    /\ args.pattern # None
    /\ LET height == height_used(args, depthmap)
       IN  \E lines \in PatternFiles(height, args.shift, Len(depthmap[1])) :
              LET r == pattern_from_file(lines, height, args.shift)
              IN  IF r.status = "ok"
                  THEN /\ pattern' = r.pattern
                       /\ pc' = "generate"
                       /\ err' = err
                  ELSE /\ pattern' = pattern
                       /\ pc' = "exit"
                       /\ err' = [kind |-> r.status, line |-> r.line_number]
    /\ UNCHANGED <<args, depthmap, li, result, trace, stdout, input, output>>

\* line 278
PrintImage ==
    /\ pc = "returned"
    /\ stdout' = result
    /\ pc' = "done"
    /\ UNCHANGED <<args, depthmap, pattern, li, result, trace, err, input, output>>

Next ==
    \/ ParseDepthMap
    \/ ValidateShift
    \/ RandomPattern
    \/ PatternFromFile
    \/ GenerateEntry
    \/ SynthLine
    \/ PrintImage

Spec == Init /\ [][Next]_vars

-----------------------------------------------------------------------------
\* Properties of generate_autostereogram (checked under SpecSynth).

\* a finished output line of the depth-map line dml: full width, no unset cell
CompleteLine(line, dml) ==
    /\ Len(line) = args.shift + Len(dml)
    /\ NoneCell \notin Range(line)

\* the pattern line (from 1) the last synthesized line was built from
TraceRow == IF trace.status = "ok" THEN li ELSE li + 1

\* C1: whenever generate_autostereogram returns, the image has one line per
\* depth-map line, every line has shift + width cells, no cell is unset, and
\* the assertion of line 144 has not failed on any line.
C1_ReturnedImageComplete ==
    /\ trace.status # "AssertionError"
    /\ \A r \in DOMAIN result : CompleteLine(result[r], depthmap[r])
    /\ pc = "returned" => Len(result) = Len(depthmap)

\* C1 witness: a two-line image was returned and its last line took a
\* character from the surplus.
C1_Witness ==
    /\ pc = "returned"
    /\ Len(depthmap) = 2
    /\ trace.fills # <<>>

\* C3: for a depth map of zeros every output line is the first shift
\* characters of its pattern line repeated over shift + width cells, and the
\* surplus is left untouched; with shift characters in every pattern line no
\* line runs out of surplus or out of its buffer.
AllZero(dm) == \A i \in DOMAIN dm : \A j \in DOMAIN dm[i] : dm[i][j] = 0

C3_ZeroMapRepeatsSeed ==
    AllZero(depthmap) =>
        /\ \A r \in DOMAIN result :
              /\ Len(result[r]) = args.shift + Len(depthmap[r])
              /\ \A i \in 0..(Len(result[r]) - 1) :
                    result[r][i + 1] = pattern[r][(i % args.shift) + 1]
        /\ trace.fills = <<>>
        /\ trace.status = "ok" => trace.surplus = Drop(pattern[li], args.shift)
        /\ (\A r \in DOMAIN pattern : Len(pattern[r]) >= args.shift) =>
              /\ pc # "exit"
              /\ err.kind # "IndexError"

\* C3 witness: a zero map wider than the shift was synthesized, so copies of
\* copies were made.
C3_Witness ==
    /\ pc = "returned"
    /\ AllZero(depthmap)
    /\ Len(depthmap[1]) > args.shift
    /\ Len(pattern[1]) > args.shift + 1

\* C7: a cell found unset with the surplus empty ends the run with
\* PatternSurplusExhausted naming the line being synthesized, after every
\* earlier line was completed and without adding the line; and the surplus is
\* consumed from its front, one character per cell filled, in cell order.
C7_SurplusExhaustion ==
    /\ trace.status \notin {"none", "ok"} =>
          LET unset_and_empty ==
                 /\ trace.at >= 0 /\ trace.at < Len(trace.line)
                 /\ trace.line[trace.at + 1] = NoneCell
                 /\ trace.surplus = <<>>
          IN  /\ unset_and_empty <=> trace.status = "PatternSurplusExhausted"
              /\ unset_and_empty => trace.hole = trace.at
    /\ trace.status = "PatternSurplusExhausted" <=> pc = "exit"
    /\ pc = "exit" =>
          /\ err = [kind |-> "PatternSurplusExhausted", line |-> li]
          /\ Len(result) = li
          /\ \A r \in DOMAIN result : CompleteLine(result[r], depthmap[r])
    /\ trace.status # "none" =>
          LET queue == Drop(pattern[TraceRow], args.shift)
          IN  /\ Len(trace.fills) <= Len(queue)
              /\ \A k \in DOMAIN trace.fills :
                    /\ trace.fills[k][2] = queue[k]
                    /\ trace.line[trace.fills[k][1] + 1] = queue[k]
                    /\ k > 1 => trace.fills[k - 1][1] < trace.fills[k][1]
              /\ trace.surplus = Drop(queue, Len(trace.fills))

\* C7 witness: the second line ran out of surplus after consuming some.
C7_Witness ==
    /\ pc = "exit"
    /\ err.line = 1
    /\ trace.fills # <<>>
    /\ trace.hole >= 0

\* the C8 scenario: one line of three zeros, shift 2, pattern line "abcde"
C8_Scenario ==
    /\ depthmap = <<<<0, 0, 0>>>>
    /\ args.shift = 2
    /\ pattern = <<<<"a", "b", "c", "d", "e">>>>

\* C8 as stated: the scenario produces the line "abacd".
C8_Original ==
    (C8_Scenario /\ pc = "returned") => result = <<<<"a", "b", "a", "c", "d">>>>

\* C8 amended: the scenario produces the line "ababa" and leaves the surplus
\* untouched.
C8_ScenarioOutput ==
    (C8_Scenario /\ pc \in {"returned", "exit", "crash"}) =>
        /\ pc = "returned"
        /\ result = <<<<"a", "b", "a", "b", "a">>>>
        /\ trace.surplus = <<"c", "d", "e">>

\* C8 witness: the scenario was run to its return.
C8_Witness == C8_Scenario /\ pc = "returned"

\* C9 as stated: every target of line 138 lies after its column and inside
\* the row buffer of shift + width cells.
C9_Original ==
    trace.status # "none" =>
        \A k \in DOMAIN trace.writes :
            /\ trace.writes[k][1] < trace.writes[k][2]
            /\ trace.writes[k][2] <= args.shift + Len(depthmap[TraceRow]) - 1

-----------------------------------------------------------------------------
\* Properties of validate_shift_arg (checked under SpecValidate).

HasCells(dm) == \E i \in DOMAIN dm : dm[i] # <<>>

\* shift exceeds the magnitude of every cell
ExceedsAll(shift, dm) ==
    \A i \in DOMAIN dm : \A j \in DOMAIN dm[i] : shift > Abs(dm[i][j])

\* C2: validate_shift_arg succeeds exactly when shift >= 2 and shift exceeds
\* every cell's magnitude; a shift that does not exceed them is reported as
\* ShiftTooSmallForDepth even when it is below 2, and ShiftBelowMinimum is
\* reported exactly when shift < 2 exceeds them all.
C2_ValidateShiftOrder ==
    (pc = "returned" /\ HasCells(input.depthmap)) =>
        LET exceeds == ExceedsAll(input.shift, input.depthmap)
        IN  /\ output.status = "ok" <=> (input.shift >= 2 /\ exceeds)
            /\ output.status = "ShiftTooSmallForDepth" <=> ~exceeds
            /\ output.status = "ShiftBelowMinimum" <=> (input.shift < 2 /\ exceeds)

\* C2 witness: a shift below 2 that is also too small for the depth map was
\* reported as too small for the depth.
C2_Witness ==
    /\ pc = "returned"
    /\ input.shift = 1
    /\ ~ExceedsAll(input.shift, input.depthmap)
    /\ output.status = "ShiftTooSmallForDepth"

-----------------------------------------------------------------------------
\* Properties of parse_depth_map_file (checked under SpecParse).

\* C6 as stated: for a positive or absent width and height the returned map
\* has the requested or natural number of rows and columns, at least one row
\* and at least one column.
C6_Original ==
    (/\ pc = "returned"
     /\ output.status = "ok"
     /\ input.width # None => input.width[1] > 0) =>
        LET rows == IF input.height = None THEN Len(input.lines) ELSE input.height[1]
            cols == IF input.width = None
                    THEN SetMax({Len(input.lines[i]) : i \in DOMAIN input.lines})
                    ELSE input.width[1]
        IN  /\ Len(output.map) = rows
            /\ \A i \in DOMAIN output.map : Len(output.map[i]) = cols
            /\ Len(output.map) >= 1
            /\ \A i \in DOMAIN output.map : Len(output.map[i]) >= 1

-----------------------------------------------------------------------------
\* Properties of main (checked under Spec).

\* C4: in random mode every pattern line has shift + width characters, no
\* line takes more than width characters from its surplus, and the run never
\* ends with PatternSurplusExhausted.
C4_RandomModeNeverExhausts ==
    args.pattern = None =>
        /\ err.kind # "PatternSurplusExhausted"
        /\ pc \in {"generate", "lines", "returned", "done"} =>
              \A r \in DOMAIN pattern :
                  Len(pattern[r]) = args.shift + Len(depthmap[1])
        /\ trace.status # "none" => Len(trace.fills) <= Len(depthmap[1])

\* C4 witness: a line of a random-mode run used its whole surplus, two
\* characters or more.
C4_Witness ==
    /\ args.pattern = None
    /\ pc = "done"
    /\ Len(depthmap[1]) >= 2
    /\ Len(trace.fills) = Len(depthmap[1])

\* C5: nothing is printed before every line is synthesized: whatever is on
\* stdout is the whole image of a run that did not fail, and a run that
\* exited or crashed has printed nothing.
C5_NoPartialImage ==
    /\ stdout # <<>> =>
          /\ pc = "done"
          /\ err = NoErr
          /\ stdout = result
          /\ Len(stdout) = Len(depthmap)
          /\ \A r \in DOMAIN stdout : CompleteLine(stdout[r], depthmap[r])
    /\ pc \in {"exit", "crash"} => stdout = <<>>
    /\ pc = "done" => stdout # <<>>

\* C5 witness: the second line failed after the first was synthesized, and
\* nothing was printed.
C5_Witness ==
    /\ pc = "exit"
    /\ err.kind = "PatternSurplusExhausted"
    /\ err.line >= 1
    /\ Len(result) >= 1
    /\ stdout = <<>>

\* C10 as stated: a pattern that pattern_from_file returned meets the
\* assertions of generate_autostereogram, so a file-mode run never fails one.
C10_Original ==
    args.pattern # None =>
        /\ pc = "generate" =>
              /\ Len(pattern) = Len(depthmap)
              /\ Len(pattern[1]) > args.shift
        /\ err.kind # "AssertionError"

====
